---------------------------- MODULE Spec2Model ----------------------------
(***************************************************************************)
(* Model of utils_cv/tracking/plot.py: plot_results, _write_video,         *)
(* _draw_boxes and _compute_color_for_all_labels.                          *)
(*                                                                         *)
(* A frame is a record [src, draws]: src is the position of the frame in   *)
(* the source video, draws the sequence of rectangle+label overlays that   *)
(* have been painted on it.  A Python dict is a sequence of [k, v] records *)
(* with pairwise distinct keys, in insertion order.                        *)
(***************************************************************************)
EXTENDS Integers, Sequences, FiniteSets

VARIABLES
    results,        \* argument: frame index -> list of TrackingBbox
    openable,       \* environment: can input_video be opened
    srcFrames,      \* environment: number of frames the source yields
    pc,             \* position in plot_results / _write_video / harness
    video,          \* state of the cv2.VideoCapture handle
    writer,         \* state of the cv2.VideoWriter handle
    unique_ids,     \* local unique_ids (id_list of the colour function)
    color_map,      \* local color_map
    frame_idx,      \* local frame_idx
    grabbed,        \* number of successful video.grab() calls
    cur_image,      \* local cur_image
    cur_tracks,     \* local cur_tracks
    written,        \* frames handed to writer.write, in call order
    outcome,        \* what the caller of plot_results observes
    err_line,       \* source line that raised, 0 when none
    id_list_r,      \* harness: a reordering of unique_ids
    color_map_r     \* harness: the colour map of id_list_r

vars == <<results, openable, srcFrames, pc, video, writer, unique_ids,
          color_map, frame_idx, grabbed, cur_image, cur_tracks, written,
          outcome, err_line, id_list_r, color_map_r>>

---------------------------------------------------------------------------
(* Bounds *)

MaxFrames == 2
MaxTrackId == 2
MaxCoord == 2
MaxIds == 2
MaxDrawLen == 3

FrameIdx == 0 .. (MaxFrames - 1)
TrackIds == 1 .. MaxTrackId

\* Coordinates are held in half pixels, so that odd values are the .5 cases
\* of round().
Bbox(t, c) ==
    [track_id |-> t, left |-> c, top |-> c + 1, right |-> c + 4, bottom |-> c + 5]

Boxes == { Bbox(t, c) : t \in TrackIds, c \in 1 .. MaxCoord }

SeqsUpTo(S, n) == UNION { [1 .. k -> S] : k \in 0 .. n }

\* The boxes the tracker reports for frame f: any track, at the place the
\* frame shows it.
FrameBoxes(f) == { Bbox(t, f + 1) : t \in TrackIds }

\* A frame lists at most two boxes: two tracks, or one track twice.
FrameTracks(f) == SeqsUpTo(FrameBoxes(f), 2)

NoImage == [src |-> -1, draws |-> <<>>]

Range(s) == { s[i] : i \in 1 .. Len(s) }

Perms(S) ==
    { s \in [1 .. Cardinality(S) -> S] : \A i, j \in 1 .. Cardinality(S) : s[i] = s[j] => i = j }

---------------------------------------------------------------------------
(* Python builtins used by the source *)

\* d[k] = v on an insertion-ordered dict
DictSet(d, k, v) ==
    IF \E i \in 1 .. Len(d) : d[i].k = k
    THEN [i \in 1 .. Len(d) |-> IF d[i].k = k THEN [k |-> k, v |-> v] ELSE d[i]]
    ELSE Append(d, [k |-> k, v |-> v])

Min(a, b) == IF a < b THEN a ELSE b

RECURSIVE DictZipUpTo(_, _, _)
DictZipUpTo(ks, vs, n) ==
    IF n = 0 THEN <<>>
    ELSE DictSet(DictZipUpTo(ks, vs, n - 1), ks[n], vs[n])

\* dict(zip(ks, vs))
DictFromZip(ks, vs) == DictZipUpTo(ks, vs, Min(Len(ks), Len(vs)))

DictKeys(d) == { d[i].k : i \in 1 .. Len(d) }

DictGet(d, key) == (CHOOSE e \in Range(d) : e.k = key).v

\* round() of a value held in half units: ties go to the even integer
Round(h) ==
    IF h % 2 = 0 THEN h \div 2
    ELSE IF (h \div 2) % 2 = 0 THEN h \div 2 ELSE (h \div 2) + 1

---------------------------------------------------------------------------
(* _compute_color_for_all_labels *)

palette == <<2047, 32767, 1048575>>

Pow5(x) == x * x * x * x * x

\* the same with the last sign slipped: (i + 1) ** 5 - i - 1
ChannelColor_signslip(p, i) == ((p % 255) * ((Pow5(i + 1) - i - 1) % 255)) % 255

\* (p * ((i + 1) ** 5 - i + 1)) % 255 on unbounded integers; the factors are
\* reduced first so that the product stays in range.
ChannelColor(p, i) == ((p % 255) * ((Pow5(i + 1) - i + 1) % 255)) % 255

ColorAt(i) == << ChannelColor(palette[1], i), ChannelColor(palette[2], i), ChannelColor(palette[3], i) >>

\* color_list, 1-based: element n is the colour of i = n - 1
ColorList(n) == [j \in 1 .. n |-> ColorAt(j - 1)]

\* the same zipping the positions id_list2 instead of id_list
_compute_color_for_all_labels_poskeys(id_list) ==
    DictFromZip([j \in 1 .. Len(id_list) |-> j - 1], ColorList(Len(id_list)))

_compute_color_for_all_labels(id_list) ==
    DictFromZip(id_list, ColorList(Len(id_list)))

---------------------------------------------------------------------------
(* _draw_boxes *)

\* cv2.rectangle and cv2.putText for one dict item
DrawOf(item, cmap) ==
    [tid    |-> item.k,
     left   |-> Round(item.v.left),
     top    |-> Round(item.v.top),
     right  |-> Round(item.v.right),
     bottom |-> Round(item.v.bottom),
     label  |-> item.k,
     color  |-> DictGet(cmap, item.k)]

\* the same keeping the first box of a track_id (dict.setdefault)
RECURSIVE TrackDictFirstUpTo(_, _)
TrackDictFirstUpTo(tracks, n) ==
    IF n = 0 THEN <<>>
    ELSE IF tracks[n].track_id \in DictKeys(TrackDictFirstUpTo(tracks, n - 1))
         THEN TrackDictFirstUpTo(tracks, n - 1)
         ELSE Append(TrackDictFirstUpTo(tracks, n - 1), [k |-> tracks[n].track_id, v |-> tracks[n]])

TrackDict_first(tracks) == TrackDictFirstUpTo(tracks, Len(tracks))

\* cur_ids = [...]; tracks = dict(zip(cur_ids, cur_tracks))
TrackDict(tracks) ==
    DictFromZip([i \in 1 .. Len(tracks) |-> tracks[i].track_id], tracks)

\* the same painting a caption on every frame before the boxes
_draw_boxes_caption(im, tracks, cmap) ==
    [im EXCEPT !.draws =
        (im.draws \o << [tid |-> 0, left |-> 0, top |-> 0, right |-> 0, bottom |-> 0,
                         label |-> Len(tracks), color |-> ColorAt(0)] >>)
        \o [i \in 1 .. Len(TrackDict(tracks)) |-> DrawOf(TrackDict(tracks)[i], cmap)]]

_draw_boxes(im, tracks, cmap) ==
    [im EXCEPT !.draws =
        im.draws \o [i \in 1 .. Len(TrackDict(tracks)) |-> DrawOf(TrackDict(tracks)[i], cmap)]]

\* color_map[tid] at line 97 finds its key for every item
ColorLookupOk(tracks, cmap) ==
    \A i \in 1 .. Len(tracks) : tracks[i].track_id \in DictKeys(cmap)

---------------------------------------------------------------------------
(* plot_results / _write_video *)

AllTrackIds(res) ==
    UNION { { b.track_id : b \in Range(res[f]) } : f \in DOMAIN res }

Init ==
    /\ \E D \in SUBSET FrameIdx :
          results \in { r \in [D -> UNION { FrameTracks(f) : f \in D }] :
                          \A f \in D : r[f] \in FrameTracks(f) }
    /\ openable \in BOOLEAN
    /\ srcFrames \in 0 .. MaxFrames
    /\ (~openable => srcFrames = 0)
    /\ pc = "open"
    /\ video = "none"
    /\ writer = "none"
    /\ unique_ids = <<>>
    /\ color_map = <<>>
    /\ frame_idx = 0
    /\ grabbed = 0
    /\ cur_image = NoImage
    /\ cur_tracks = <<>>
    /\ written = <<>>
    /\ outcome = "none"
    /\ err_line = 0
    /\ id_list_r = <<>>
    /\ color_map_r = <<>>

\* video = cv2.VideoCapture(); video.open(input_video)
OpenVideo ==
    /\ pc = "open"
    /\ video' = IF openable THEN "opened" ELSE "failed"
    /\ pc' = "writer"
    /\ UNCHANGED <<results, openable, srcFrames, writer, unique_ids, color_map,
                   frame_idx, grabbed, cur_image, cur_tracks, written, outcome,
                   err_line, id_list_r, color_map_r>>

\* writer = cv2.VideoWriter(output_video, fourcc, frame_rate, (w, h))
CreateWriter ==
    /\ pc = "writer"
    /\ writer' = "created"
    /\ pc' = "colors"
    /\ UNCHANGED <<results, openable, srcFrames, video, unique_ids, color_map,
                   frame_idx, grabbed, cur_image, cur_tracks, written, outcome,
                   err_line, id_list_r, color_map_r>>

\* the same collecting the ids of frame 0 only
ComputeColors_frame0 ==
    /\ pc = "colors"
    /\ \E ids \in Perms(IF 0 \in DOMAIN results
                        THEN { b.track_id : b \in Range(results[0]) } ELSE {}) :
          /\ unique_ids' = ids
          /\ color_map' = _compute_color_for_all_labels(ids)
    /\ frame_idx' = 0
    /\ pc' = "grab"
    /\ UNCHANGED <<results, openable, srcFrames, video, writer, grabbed,
                   cur_image, cur_tracks, written, outcome, err_line,
                   id_list_r, color_map_r>>

\* unique_ids = list(set(...)); color_map = _compute_color_for_all_labels(...)
\* The iteration order of a set is not specified: any order may result.
ComputeColors ==
    /\ pc = "colors"
    /\ \E ids \in Perms(AllTrackIds(results)) :
          /\ unique_ids' = ids
          /\ color_map' = _compute_color_for_all_labels(ids)
    /\ frame_idx' = 0
    /\ pc' = "grab"
    /\ UNCHANGED <<results, openable, srcFrames, video, writer, grabbed,
                   cur_image, cur_tracks, written, outcome, err_line,
                   id_list_r, color_map_r>>

\* while video.grab(): true while the opened source has a next frame
Grab ==
    /\ pc = "grab"
    /\ video = "opened"
    /\ grabbed < srcFrames
    /\ grabbed' = grabbed + 1
    /\ pc' = "retrieve"
    /\ UNCHANGED <<results, openable, srcFrames, video, writer, unique_ids,
                   color_map, frame_idx, cur_image, cur_tracks, written,
                   outcome, err_line, id_list_r, color_map_r>>

\* video.grab() returns False: the loop ends and _write_video returns
GrabEnd ==
    /\ pc = "grab"
    /\ ~(video = "opened" /\ grabbed < srcFrames)
    /\ pc' = "return"
    /\ UNCHANGED <<results, openable, srcFrames, video, writer, unique_ids,
                   color_map, frame_idx, grabbed, cur_image, cur_tracks,
                   written, outcome, err_line, id_list_r, color_map_r>>

\* _, cur_image = video.retrieve()
Retrieve ==
    /\ pc = "retrieve"
    /\ cur_image' = [src |-> grabbed - 1, draws |-> <<>>]
    /\ pc' = "lookup"
    /\ UNCHANGED <<results, openable, srcFrames, video, writer, unique_ids,
                   color_map, frame_idx, grabbed, cur_tracks, written, outcome,
                   err_line, id_list_r, color_map_r>>

\* cur_tracks = results[frame_idx], key present
Lookup ==
    /\ pc = "lookup"
    /\ frame_idx \in DOMAIN results
    /\ cur_tracks' = results[frame_idx]
    /\ pc' = "annotate"
    /\ UNCHANGED <<results, openable, srcFrames, video, writer, unique_ids,
                   color_map, frame_idx, grabbed, cur_image, written, outcome,
                   err_line, id_list_r, color_map_r>>

\* cur_tracks = results[frame_idx], key absent: KeyError leaves _write_video
\* and plot_results; the traceback keeps the locals of the frame alive.
LookupKeyError ==
    /\ pc = "lookup"
    /\ frame_idx \notin DOMAIN results
    /\ outcome' = "KeyError"
    /\ err_line' = 67
    /\ pc' = "raised"
    /\ UNCHANGED <<results, openable, srcFrames, video, writer, unique_ids,
                   color_map, frame_idx, grabbed, cur_image, cur_tracks,
                   written, id_list_r, color_map_r>>

\* if len(cur_tracks) > 0: cur_image = _draw_boxes(cur_image, cur_tracks, color_map)
Annotate ==
    /\ pc = "annotate"
    /\ IF Len(cur_tracks) > 0
       THEN IF ColorLookupOk(cur_tracks, color_map)
            THEN /\ cur_image' = _draw_boxes(cur_image, cur_tracks, color_map)
                 /\ pc' = "write"
                 /\ UNCHANGED <<outcome, err_line>>
            ELSE /\ outcome' = "KeyError"
                 /\ err_line' = 97
                 /\ pc' = "raised"
                 /\ UNCHANGED cur_image
       ELSE /\ pc' = "write"
            /\ UNCHANGED <<cur_image, outcome, err_line>>
    /\ UNCHANGED <<results, openable, srcFrames, video, writer, unique_ids,
                   color_map, frame_idx, grabbed, cur_tracks, written,
                   id_list_r, color_map_r>>

\* the same without frame_idx += 1
Write_noincr ==
    /\ pc = "write"
    /\ written' = Append(written, cur_image)
    /\ pc' = "grab"
    /\ UNCHANGED <<results, openable, srcFrames, video, writer, unique_ids,
                   color_map, frame_idx, grabbed, cur_image, cur_tracks, outcome,
                   err_line, id_list_r, color_map_r>>

\* writer.write(cur_image); frame_idx += 1
Write ==
    /\ pc = "write"
    /\ written' = Append(written, cur_image)
    /\ frame_idx' = frame_idx + 1
    /\ pc' = "grab"
    /\ UNCHANGED <<results, openable, srcFrames, video, writer, unique_ids,
                   color_map, grabbed, cur_image, cur_tracks, outcome,
                   err_line, id_list_r, color_map_r>>

\* _write_video falls off its end.  It calls release() on neither handle;
\* whether the runtime finalizes the two locals at this point (reference
\* counting) or later (deferred collection) is not fixed by the source.
ReturnWriteVideo ==
    /\ pc = "return"
    /\ \E finalized \in BOOLEAN :
          /\ video' = IF finalized THEN "released" ELSE video
          /\ writer' = IF finalized THEN "released" ELSE writer
    /\ pc' = "print"
    /\ UNCHANGED <<results, openable, srcFrames, unique_ids, color_map,
                   frame_idx, grabbed, cur_image, cur_tracks, written, outcome,
                   err_line, id_list_r, color_map_r>>

\* print(f"Output saved to {output_video}."); return output_video
PrintAndReturn ==
    /\ pc = "print"
    /\ outcome' = "saved"
    /\ pc' = "done"
    /\ UNCHANGED <<results, openable, srcFrames, video, writer, unique_ids,
                   color_map, frame_idx, grabbed, cur_image, cur_tracks,
                   written, err_line, id_list_r, color_map_r>>

Next ==
    \/ OpenVideo
    \/ CreateWriter
    \/ ComputeColors
    \/ Grab
    \/ GrabEnd
    \/ Retrieve
    \/ Lookup
    \/ LookupKeyError
    \/ Annotate
    \/ Write
    \/ ReturnWriteVideo
    \/ PrintAndReturn

Spec == Init /\ [][Next]_vars

---------------------------------------------------------------------------
(* Direct calls of _compute_color_for_all_labels *)

IdUniverse == (1 .. MaxIds) \cup {5, 9}

DistinctIdLists == UNION { Perms(S) : S \in SUBSET IdUniverse }

InitColor ==
    /\ unique_ids \in DistinctIdLists
    /\ pc = "call_color"
    /\ results = <<>>
    /\ openable = FALSE
    /\ srcFrames = 0
    /\ video = "none"
    /\ writer = "none"
    /\ color_map = <<>>
    /\ frame_idx = 0
    /\ grabbed = 0
    /\ cur_image = NoImage
    /\ cur_tracks = <<>>
    /\ written = <<>>
    /\ outcome = "none"
    /\ err_line = 0
    /\ id_list_r = <<>>
    /\ color_map_r = <<>>

\* color_map = _compute_color_for_all_labels(unique_ids)
CallComputeColor ==
    /\ pc = "call_color"
    /\ color_map' = _compute_color_for_all_labels(unique_ids)
    /\ pc' = "call_color_reordered"
    /\ UNCHANGED <<results, openable, srcFrames, video, writer, unique_ids,
                   frame_idx, grabbed, cur_image, cur_tracks, written, outcome,
                   err_line, id_list_r, color_map_r>>

\* a second call, on the same identifiers in any order
CallComputeColorReordered ==
    /\ pc = "call_color_reordered"
    /\ \E q \in Perms(Range(unique_ids)) :
          /\ id_list_r' = q
          /\ color_map_r' = _compute_color_for_all_labels(q)
    /\ pc' = "color_done"
    /\ UNCHANGED <<results, openable, srcFrames, video, writer, unique_ids,
                   color_map, frame_idx, grabbed, cur_image, cur_tracks,
                   written, outcome, err_line>>

NextColor ==
    \/ CallComputeColor
    \/ CallComputeColorReordered

SpecColor == InitColor /\ [][NextColor]_vars

---------------------------------------------------------------------------
(* Direct calls of _draw_boxes *)

InitDraw ==
    /\ cur_tracks \in SeqsUpTo(Boxes, MaxDrawLen)
    /\ cur_image \in { [src |-> k, draws |-> <<>>] : k \in FrameIdx }
    /\ \E ids \in Perms(TrackIds) :
          /\ unique_ids = ids
          /\ color_map = _compute_color_for_all_labels(ids)
    /\ pc = "call_draw"
    /\ results = <<>>
    /\ openable = FALSE
    /\ srcFrames = 0
    /\ video = "none"
    /\ writer = "none"
    /\ frame_idx = 0
    /\ grabbed = 0
    /\ written = <<>>
    /\ outcome = "none"
    /\ err_line = 0
    /\ id_list_r = <<>>
    /\ color_map_r = <<>>

\* cur_image = _draw_boxes(cur_image, cur_tracks, color_map)
CallDrawBoxes ==
    /\ pc = "call_draw"
    /\ cur_image' = _draw_boxes(cur_image, cur_tracks, color_map)
    /\ pc' = "draw_done"
    /\ UNCHANGED <<results, openable, srcFrames, video, writer, unique_ids,
                   color_map, frame_idx, grabbed, cur_tracks, written, outcome,
                   err_line, id_list_r, color_map_r>>

NextDraw == CallDrawBoxes

SpecDraw == InitDraw /\ [][NextDraw]_vars

---------------------------------------------------------------------------
(* Properties *)

Returned == pc \in {"done", "raised"}

\* every frame index the source yields has a key in results
FullKeys == srcFrames >= 1 /\ \A k \in 0 .. (srcFrames - 1) : k \in DOMAIN results

\* draw d is the overlay of box b
DrawIsBox(d, b) ==
    /\ d.tid = b.track_id
    /\ d.left = Round(b.left)
    /\ d.top = Round(b.top)
    /\ d.right = Round(b.right)
    /\ d.bottom = Round(b.bottom)

\* the overlays on fr come from boxes, and every track_id of boxes has one
AnnotatedWith(fr, boxes) ==
    /\ \A i \in 1 .. Len(fr.draws) : \E b \in Range(boxes) : DrawIsBox(fr.draws[i], b)
    /\ \A b \in Range(boxes) : \E i \in 1 .. Len(fr.draws) : fr.draws[i].tid = b.track_id

\* C1: with a key for every frame index 0..N-1 of an N-frame source (N >= 1)
\* the run writes exactly N frames in source order: the k-th frame written is
\* the k-th frame decoded, carrying overlays of the boxes of results[k] only,
\* and frame k is written before frame k+1 is grabbed.
C1_FramesInOrder ==
    FullKeys =>
        /\ outcome # "KeyError"
        /\ Len(written) <= grabbed
        /\ grabbed <= Len(written) + 1
        /\ \A k \in 1 .. Len(written) :
              /\ written[k].src = k - 1
              /\ AnnotatedWith(written[k], results[k - 1])
        /\ (pc \in {"return", "print", "done"} => Len(written) = srcFrames)

C1_Witness ==
    /\ FullKeys
    /\ pc = "done"
    /\ srcFrames >= 2
    /\ Len(written) = srcFrames
    /\ results[0] # <<>>
    /\ results[1] # <<>>
    /\ AllTrackIds([f \in {0} |-> results[0]]) # AllTrackIds([f \in {1} |-> results[1]])

\* C2: when results lacks a key for some frame index below N the run still
\* completes: no error is raised and the output path is returned.
C2_MissingKeyCompletes ==
    (\E k \in 0 .. (srcFrames - 1) : k \notin DOMAIN results) =>
        /\ outcome # "KeyError"
        /\ pc # "raised"

\* C3: when the input video cannot be opened the run ends in an OpenError:
\* no sink is created, no frame is written, and the caller never receives
\* the success outcome.
C3_OpenErrorRaised ==
    ~openable =>
        /\ outcome # "saved"
        /\ (Returned => outcome = "OpenError" /\ writer = "none" /\ written = <<>>)

\* C4: when control is back at the caller, on success or on an error, the
\* source handle and the writer handle have both been released.
C4_HandlesReleased ==
    Returned =>
        /\ video \in {"released", "failed"}
        /\ writer = "released"

\* the last position of track_id t in tracks
LastIndexOf(tracks, t) ==
    CHOOSE i \in 1 .. Len(tracks) :
        /\ tracks[i].track_id = t
        /\ \A j \in (i + 1) .. Len(tracks) : tracks[j].track_id # t

\* C5: _draw_boxes draws exactly one box per distinct track_id of its box
\* sequence, and that box is the last one in the sequence with that track_id.
C5_LastWriteWins ==
    pc = "draw_done" =>
        /\ \A i \in 1 .. Len(cur_image.draws) :
              \E b \in Range(cur_tracks) : cur_image.draws[i].tid = b.track_id
        /\ \A b \in Range(cur_tracks) :
              /\ Cardinality({ i \in 1 .. Len(cur_image.draws) :
                                 cur_image.draws[i].tid = b.track_id }) = 1
              /\ \A i \in 1 .. Len(cur_image.draws) :
                    cur_image.draws[i].tid = b.track_id =>
                        DrawIsBox(cur_image.draws[i],
                                  cur_tracks[LastIndexOf(cur_tracks, b.track_id)])

C5_Witness ==
    /\ pc = "draw_done"
    /\ \E i, j \in 1 .. Len(cur_tracks) :
          /\ i < j
          /\ cur_tracks[i].track_id = cur_tracks[j].track_id
          /\ ~DrawIsBox(cur_image.draws[1], cur_tracks[i])
          /\ DrawIsBox(cur_image.draws[1], cur_tracks[j])

\* C6: for a list of at least two distinct identifiers, every reordering that
\* differs from the list changes the colour of at least one identifier.
C6_ReorderChangesAColor ==
    (pc = "color_done" /\ Len(unique_ids) >= 2 /\ id_list_r # unique_ids) =>
        \E id \in Range(unique_ids) : DictGet(color_map, id) # DictGet(color_map_r, id)

\* C7 as stated: for the order [5, 9], identifier 5 gets (14, 44, 0).
C7_ColorOfFive_Stated ==
    (pc # "call_color" /\ unique_ids = <<5, 9>>) => DictGet(color_map, 5) = <<14, 44, 0>>

\* C7 amended: for the order [5, 9], identifier 5 (position 0) gets
\* (14, 254, 30), the value of (p * ((i+1)^5 - i + 1)) mod 255 at i = 0 for
\* the palette (2047, 32767, 1048575).
C7_ColorOfFive ==
    (pc # "call_color" /\ unique_ids = <<5, 9>>) => DictGet(color_map, 5) = <<14, 254, 30>>

C7_Witness == pc = "call_color_reordered" /\ unique_ids = <<5, 9>> /\ Len(color_map) = 2

\* C8: for a non-empty list of distinct identifiers the returned mapping has
\* exactly the input identifiers as keys, one entry each.
C8_KeysAreTheIds ==
    /\ (pc # "call_color" /\ Len(unique_ids) >= 1) =>
          /\ DictKeys(color_map) = Range(unique_ids)
          /\ Len(color_map) = Len(unique_ids)
    /\ (pc = "color_done" /\ Len(id_list_r) >= 1) =>
          /\ DictKeys(color_map_r) = Range(id_list_r)
          /\ Len(color_map_r) = Len(id_list_r)

C8_Witness == pc = "color_done" /\ Len(unique_ids) >= 3 /\ id_list_r # unique_ids

\* C9: a frame with an empty box list is never modified: _draw_boxes on an
\* empty list returns the frame as it is, and a frame whose results entry is
\* empty is written exactly as it was decoded.
C9_EmptyPassThrough ==
    /\ _draw_boxes(cur_image, <<>>, color_map) = cur_image
    /\ (pc = "write" /\ cur_tracks = <<>>) => cur_image = [src |-> grabbed - 1, draws |-> <<>>]
    /\ \A k \in 1 .. Len(written) :
          (k - 1 \in DOMAIN results /\ results[k - 1] = <<>>) =>
              written[k] = [src |-> k - 1, draws |-> <<>>]

C9_Witness ==
    /\ pc = "done"
    /\ \E k, m \in 1 .. Len(written) :
          /\ results[k - 1] = <<>>
          /\ written[k].draws = <<>>
          /\ written[m].draws # <<>>

InFrameLoop == pc \in {"grab", "retrieve", "lookup", "annotate", "write"}

C10_Inv ==
    pc \notin {"open", "writer", "colors"} =>
        /\ DictKeys(color_map) = AllTrackIds(results)
        /\ \A i, j \in 1 .. Len(color_map) : color_map[i].k = color_map[j].k => i = j
        /\ err_line # 97
        /\ (pc = "annotate" => ColorLookupOk(cur_tracks, color_map))
        /\ \A k \in 1 .. Len(written) : \A i \in 1 .. Len(written[k].draws) :
              written[k].draws[i].color = DictGet(color_map, written[k].draws[i].tid)
        /\ \A k, m \in 1 .. Len(written) :
              \A i \in 1 .. Len(written[k].draws) : \A j \in 1 .. Len(written[m].draws) :
                 written[k].draws[i].tid = written[m].draws[j].tid =>
                     written[k].draws[i].color = written[m].draws[j].color

\* C10: throughout the frame loop the colour map has exactly one entry for
\* every track_id occurring in any frame of results and does not change, so
\* every colour lookup finds its key and a track_id has one colour in all
\* frames of a run.
C10_ColorMapFixed ==
    /\ []C10_Inv
    /\ [][InFrameLoop => color_map' = color_map]_vars

C10_Witness ==
    /\ pc = "done"
    /\ Len(written) >= 2
    /\ \E i \in 1 .. Len(written[1].draws) : \E j \in 1 .. Len(written[2].draws) :
          written[1].draws[i].tid = written[2].draws[j].tid
    /\ Len(color_map) >= 2

=============================================================================
